---------------------------- MODULE Spec2Model ----------------------------
(***************************************************************************)
(* Model of the drug-ingredient Collector (creating_local_data.py) and of  *)
(* the Resolver's interactive query loop (app_with_chroma_and_fda_api.py). *)
(*                                                                         *)
(* A Python str is a sequence of one-character strings, so that lower(),   *)
(* strip(), split(",") and ", ".join() are computed character by character.*)
(* A Python dict is a function whose DOMAIN is the set of keys present.    *)
(***************************************************************************)
EXTENDS Integers, Sequences, FiniteSets, TLC

VARIABLES
    \* ---- normalize_ingredients, applied to a list of records
    pcN, records, records1,
    \* ---- extract_complete_record, applied to one label
    pcE, label, rxResp, rec, rxCalls, rxName,
    \* ---- collect_50_complete_drugs over a labeling API serving `source`
    pc, source, collected, seen_apps, skip, labels, idx, fetches,
    \* ---- the Resolver's query loop
    pcR, brand_names, local_drug_names, input, query, fdaResp, fda_result,
    printed, chainCalls, fdaCalls

varsN == <<pcN, records, records1>>
varsE == <<pcE, label, rxResp, rec, rxCalls, rxName>>
varsC == <<pc, source, collected, seen_apps, skip, labels, idx, fetches>>
varsR == <<pcR, brand_names, local_drug_names, input, query, fdaResp,
           fda_result, printed, chainCalls, fdaCalls>>
vars == <<varsN, varsE, varsC, varsR>>

-----------------------------------------------------------------------------
(* Python str helpers *)

UpperLetters == <<"A", "B", "C", "E", "I", "T", "X">>
LowerLetters == <<"a", "b", "c", "e", "i", "t", "x">>

\* the whitespace str.strip() removes, as far as the inputs contain it
Whitespace == {" ", "\t", "\n"}

LowerChar(c) ==
    IF \E k \in DOMAIN UpperLetters : UpperLetters[k] = c
    THEN LowerLetters[CHOOSE k \in DOMAIN UpperLetters : UpperLetters[k] = c]
    ELSE c

\* str.lower()
Lower(s) == [k \in DOMAIN s |-> LowerChar(s[k])]

RECURSIVE LStrip(_)
LStrip(s) ==
    IF s # <<>> /\ Head(s) \in Whitespace THEN LStrip(Tail(s)) ELSE s

RECURSIVE RStrip(_)
RStrip(s) ==
    IF s # <<>> /\ s[Len(s)] \in Whitespace
    THEN RStrip(SubSeq(s, 1, Len(s) - 1))
    ELSE s

\* str.strip()
Strip(s) == RStrip(LStrip(s))

\* str.split(sep) for a one-character sep: always at least one piece
RECURSIVE SplitFrom(_, _, _)
SplitFrom(s, sep, cur) ==
    IF s = <<>> THEN <<cur>>
    ELSE IF Head(s) = sep THEN <<cur>> \o SplitFrom(Tail(s), sep, <<>>)
    ELSE SplitFrom(Tail(s), sep, Append(cur, Head(s)))

Split(s, sep) == SplitFrom(s, sep, <<>>)

\* sep.join(list)
RECURSIVE Join(_, _)
Join(list, sep) ==
    IF list = <<>> THEN <<>>
    ELSE IF Len(list) = 1 THEN list[1]
    ELSE list[1] \o sep \o Join(Tail(list), sep)

CommaSpace == <<",", " ">>

\* list(dict.fromkeys(list)): first occurrences, in their original order
RECURSIVE FromKeys(_, _)
FromKeys(list, seen) ==
    IF list = <<>> THEN <<>>
    ELSE IF Head(list) \in seen THEN FromKeys(Tail(list), seen)
    ELSE <<Head(list)>> \o FromKeys(Tail(list), seen \cup {Head(list)})

\* [i.strip() for i in s.split(",") if i.strip()]
RECURSIVE StripNonEmpty(_)
StripNonEmpty(pieces) ==
    IF pieces = <<>> THEN <<>>
    ELSE IF Strip(Head(pieces)) # <<>>
         THEN <<Strip(Head(pieces))>> \o StripNonEmpty(Tail(pieces))
         ELSE StripNonEmpty(Tail(pieces))

\* NormalizeField without the dict.fromkeys step
NormalizeField_KeepDuplicates(s) ==
    Join(StripNonEmpty(Split(s, ",")), CommaSpace)

\* one field of normalize_ingredients
NormalizeField(s) ==
    Join(FromKeys(StripNonEmpty(Split(s, ",")), {}), CommaSpace)

\* normalize_ingredients(records)
normalize_ingredients(recs) ==
    [k \in DOMAIN recs |->
        [recs[k] EXCEPT
            !["Active Ingredients"] = NormalizeField(recs[k]["Active Ingredients"]),
            !["Inactive Ingredients"] = NormalizeField(recs[k]["Inactive Ingredients"])]]

-----------------------------------------------------------------------------
(* Python values *)

\* dict.get(key, default)
Get(d, key, default) == IF key \in DOMAIN d THEN d[key] ELSE default

\* the dict d restricted to the keys in present
Only(d, present) == [key \in present |-> d[key]]

EmptyDict == [key \in {} |-> {}]

\* the result of a call: a value, None, or an exception that leaves the call
Value(v) == [tag |-> "value", value |-> v]
None == [tag |-> "None"]
Raised == [tag |-> "raise"]

\* [""]: the default of the identity fields
DefaultField == << <<>> >>

-----------------------------------------------------------------------------
(* creating_local_data.py: record completion *)

\* fetch_rxterms_ingredients(drug_name); resp is what requests.get meets:
\* a connection error, or a response with a status code and a body
fetch_rxterms_ingredients(resp) ==
    IF resp.kind = "error" THEN Raised
    ELSE IF resp.status_code # 200 THEN None
    ELSE IF resp.kind = "notjson" THEN Raised
    ELSE IF Len(resp.data) >= 3
         THEN Value([active |-> Get(resp.data[3], "active_ingredient", <<>>),
                     inactive |-> Get(resp.data[3], "inactive_ingredient", <<>>)])
         ELSE None

\* the record dict of extract_complete_record
Record(brand, generic, manufacturer, app_no, dosage_form, active, inactive) ==
    [key \in {"Brand Name", "Generic Name", "Manufacturer",
              "Application Number", "Dosage Form",
              "Active Ingredients", "Inactive Ingredients"} |->
        CASE key = "Brand Name" -> brand
          [] key = "Generic Name" -> generic
          [] key = "Manufacturer" -> manufacturer
          [] key = "Application Number" -> app_no
          [] key = "Dosage Form" -> dosage_form
          [] key = "Active Ingredients" -> active
          [] key = "Inactive Ingredients" -> inactive]

\* x or y, for str x
Or(x, y) == IF x # <<>> THEN x ELSE y

UnknownBrand ==
    <<"U", "n", "k", "n", "o", "w", "n", " ", "b", "r", "a", "n", "d">>
UnknownGeneric ==
    <<"U", "n", "k", "n", "o", "w", "n", " ", "g", "e", "n", "e", "r", "i", "c">>
Unknown == <<"U", "n", "k", "n", "o", "w", "n">>

\* the locals extract_complete_record reads out of the label
LabelFields(lab) ==
    LET openfda == Get(lab, "openfda", EmptyDict)
    IN  [brand |-> Strip(Get(openfda, "brand_name", DefaultField)[1]),
         generic |-> Strip(Get(openfda, "generic_name", DefaultField)[1]),
         manufacturer |-> Strip(Get(openfda, "manufacturer_name", DefaultField)[1]),
         app_no |-> Strip(Get(openfda, "application_number", DefaultField)[1]),
         dosage_form |-> Strip(Get(lab, "dosage_form", DefaultField)[1]),
         active |-> Get(lab, "active_ingredient", <<>>),
         inactive |-> Get(lab, "inactive_ingredient", <<>>)]

\* the record returned when the label has both ingredient lists
PrimaryRecord(f) ==
    Record(f.brand, f.generic, f.manufacturer, f.app_no, f.dosage_form,
           Join(f.active, CommaSpace), Join(f.inactive, CommaSpace))

\* FallbackRecord with the fallback's lists appended to the label's
FallbackRecord_Merged(f, fb) ==
    Record(Or(f.brand, UnknownBrand), Or(f.generic, UnknownGeneric),
           Or(f.manufacturer, Unknown), Or(f.app_no, Unknown),
           Or(f.dosage_form, Unknown),
           Join(f.active \o fb.active, CommaSpace),
           Join(f.inactive \o fb.inactive, CommaSpace))

\* the record returned from the fallback's ingredient lists
FallbackRecord(f, fb) ==
    Record(Or(f.brand, UnknownBrand), Or(f.generic, UnknownGeneric),
           Or(f.manufacturer, Unknown), Or(f.app_no, Unknown),
           Or(f.dosage_form, Unknown),
           Join(fb.active, CommaSpace), Join(fb.inactive, CommaSpace))

\* BothLists looking at the active list only
BothLists_ActiveOnly(a, i) == a # <<>>

\* `active and inactive`, `active_f and inactive_f`
BothLists(a, i) == a # <<>> /\ i # <<>>

\* the body of extract_complete_record after the locals: the result, with
\* the number of calls of fetch_rxterms_ingredients made and the name passed
CompleteRecord(f, resp) ==
    LET fallback == fetch_rxterms_ingredients(resp)
    IN  IF BothLists(f.active, f.inactive)
        THEN [result |-> Value(PrimaryRecord(f)),
              calls |-> 0, drug_name |-> <<>>]
        ELSE IF fallback.tag = "raise"
        THEN [result |-> Raised,
              calls |-> 1, drug_name |-> Or(f.brand, f.generic)]
        ELSE IF /\ fallback.tag = "value"
                /\ BothLists(fallback.value.active, fallback.value.inactive)
        THEN [result |-> Value(FallbackRecord(f, fallback.value)),
              calls |-> 1, drug_name |-> Or(f.brand, f.generic)]
        ELSE [result |-> None,
              calls |-> 1, drug_name |-> Or(f.brand, f.generic)]

\* extract_complete_record calling the fallback before it looks at the label
extract_complete_record_Eager(lab, resp) ==
    [CompleteRecord(LabelFields(lab), resp) EXCEPT
        !.calls = 1, !.drug_name = Or(LabelFields(lab).brand, LabelFields(lab).generic)]

\* extract_complete_record(label)
extract_complete_record(lab, resp) == CompleteRecord(LabelFields(lab), resp)

-----------------------------------------------------------------------------
(* Specification SpecNorm: normalize_ingredients on bounded ingredient text *)

MaxLen == 3
MaxLenInactive == 2

NormAlphabet == {"A", "B", ",", " "}

RECURSIVE StringsUpTo(_, _)
StringsUpTo(alphabet, n) ==
    IF n = 0 THEN {<<>>}
    ELSE LET shorter == StringsUpTo(alphabet, n - 1)
         IN  shorter \cup {Append(s, c) : s \in shorter, c \in alphabet}

\* "A, B, A, C"
ExampleIn == <<"A", ",", " ", "B", ",", " ", "A", ",", " ", "C">>
\* "A, B, C"
ExampleOut == <<"A", ",", " ", "B", ",", " ", "C">>

\* a record with the given ingredient text
TextRecord(a, i) == Record(<<"B">>, <<"G">>, <<"M">>, <<"N">>, <<"D">>, a, i)

ExampleRec == TextRecord(ExampleIn, <<" ", "C", " ", ",", ",", "C">>)

NormInputs ==
    LET one == {TextRecord(a, i) :
                    a \in StringsUpTo(NormAlphabet, MaxLen) \cup {ExampleIn},
                    i \in StringsUpTo(NormAlphabet, MaxLenInactive)}
    IN  {<<r>> : r \in one} \cup {<<r, ExampleRec>> : r \in one}

InitN ==
    /\ pcN = "input"
    /\ records \in NormInputs
    /\ records1 = <<>>

\* records = normalize_ingredients(records); records1 keeps the argument
Normalize ==
    /\ pcN \in {"input", "once"}
    /\ records1' = records
    /\ records' = normalize_ingredients(records)
    /\ pcN' = IF pcN = "input" THEN "once" ELSE "twice"

InitEIdle ==
    /\ pcE = "idle"
    /\ label = EmptyDict
    /\ rxResp = [kind |-> "error"]
    /\ rec = None
    /\ rxCalls = 0
    /\ rxName = <<>>

InitNIdle ==
    /\ pcN = "idle"
    /\ records = <<>>
    /\ records1 = <<>>

InitCIdle ==
    /\ pc = "idle"
    /\ source = <<>>
    /\ collected = <<>>
    /\ seen_apps = {}
    /\ skip = 0
    /\ labels = <<>>
    /\ idx = 0
    /\ fetches = 0

InitRIdle ==
    /\ pcR = "idle"
    /\ brand_names = {}
    /\ local_drug_names = {}
    /\ input = <<>>
    /\ query = <<>>
    /\ fdaResp = [kind |-> "error"]
    /\ fda_result = None
    /\ printed = <<>>
    /\ chainCalls = 0
    /\ fdaCalls = 0

InitNorm == InitN /\ InitEIdle /\ InitCIdle /\ InitRIdle

NextN == Normalize /\ UNCHANGED <<varsE, varsC, varsR>>

SpecNorm == InitNorm /\ [][NextN]_vars

-----------------------------------------------------------------------------
(* Specification SpecRecord: extract_complete_record on one label *)

\* the lists a label field can hold: the labeling API sends a field with
\* at least one entry or not at all; the first entry is the one used
FieldLists(v) == {<< <<" ">> >>, << <<" ", v, " ">>, <<"Z">> >>}

OpenfdaKeys ==
    {"brand_name", "generic_name", "manufacturer_name", "application_number"}

OpenfdaInputs ==
    LET full == [brand_name : FieldLists("B"),
                 generic_name : FieldLists("G"),
                 manufacturer_name : FieldLists("M"),
                 application_number : FieldLists("N")]
    IN  {Only(f, present) : f \in full, present \in SUBSET OpenfdaKeys}

ActiveLists == {<<>>, << <<"X">> >>, << <<"X">>, <<"Y", "y">> >>}
InactiveLists == {<<>>, << <<"W">>, <<"V">> >>}

LabelKeys == {"openfda", "dosage_form", "active_ingredient", "inactive_ingredient"}

LabelInputs ==
    LET full == [openfda : OpenfdaInputs,
                 dosage_form : FieldLists("D"),
                 active_ingredient : ActiveLists,
                 inactive_ingredient : InactiveLists]
    IN  {Only(f, present) : f \in full, present \in SUBSET LabelKeys}

\* the third element of the secondary API's JSON array
DetailsInputs ==
    LET full == [active_ingredient : {<<>>, << <<"P">>, <<"Q">> >>},
                 inactive_ingredient : {<<>>, << <<"R">> >>}]
    IN  {Only(f, present) : f \in full,
            present \in SUBSET {"active_ingredient", "inactive_ingredient"}}

\* what requests.get meets at the secondary ingredient API
RxResponses ==
    {[kind |-> "error"],
     [kind |-> "json", status_code |-> 500, data |-> <<>>],
     [kind |-> "notjson", status_code |-> 200],
     [kind |-> "json", status_code |-> 200, data |-> <<EmptyDict, EmptyDict>>]}
    \cup {[kind |-> "json", status_code |-> 200,
           data |-> <<EmptyDict, EmptyDict, d>>] : d \in DetailsInputs}

InitE ==
    /\ pcE = "label"
    /\ label \in LabelInputs
    /\ rxResp \in RxResponses
    /\ rec = None
    /\ rxCalls = 0
    /\ rxName = <<>>

\* rec = extract_complete_record(label)
ExtractCompleteRecord ==
    /\ pcE = "label"
    /\ LET r == extract_complete_record(label, rxResp)
       IN  /\ rec' = r.result
           /\ rxCalls' = rxCalls + r.calls
           /\ rxName' = r.drug_name
    /\ pcE' = "done"
    /\ UNCHANGED <<label, rxResp>>

InitRecord == InitE /\ InitNIdle /\ InitCIdle /\ InitRIdle

NextE == ExtractCompleteRecord /\ UNCHANGED <<varsN, varsC, varsR>>

SpecRecord == InitRecord /\ [][NextE]_vars

-----------------------------------------------------------------------------
(* creating_local_data.py: the batch loop *)

Target == 50
batch_size == 10

\* fetch_fda_labels(limit, skip); resp is what requests.get meets
fetch_fda_labels(resp) ==
    IF resp.kind = "error" THEN Raised
    ELSE IF resp.status_code >= 400 THEN Raised
    ELSE IF resp.kind = "notjson" THEN Raised
    ELSE Value(Get(resp.body, "results", <<>>))

\* the labels the labeling API holds at positions skip+1 .. skip+limit
Page(src, limit, skp) ==
    SubSeq(src, skp + 1, IF skp + limit < Len(src) THEN skp + limit ELSE Len(src))

\* what requests.get can meet at the labeling API for (limit, skip): a
\* failure, or the page; past the end the body has an empty or no results
FdaResponses(src, limit, skp) ==
    {[kind |-> "error"],
     [kind |-> "json", status_code |-> 500, body |-> EmptyDict],
     [kind |-> "notjson", status_code |-> 200],
     [kind |-> "json", status_code |-> 200,
      body |-> [results |-> Page(src, limit, skp)]]}
    \cup (IF Page(src, limit, skp) = <<>>
          THEN {[kind |-> "json", status_code |-> 200, body |-> EmptyDict]}
          ELSE {})

\* Reached never true: the for loop runs to the end of the batch
Reached_Never(n) == FALSE

\* `if len(collected) >= 50: break`
Reached(n) == n >= Target

\* IsFresh without the look-up in seen_apps
IsFresh_NoDedup(r, seen) == r.tag = "value"

\* `if rec:` and `if app not in seen_apps:`
IsFresh(r, seen) ==
    r.tag = "value" /\ r.value["Application Number"] \notin seen

\* while len(collected) < 50: labels = fetch_fda_labels(...); if not labels: break
FetchBatch ==
    /\ pc = "while"
    /\ Len(collected) < Target
    /\ \E resp \in FdaResponses(source, batch_size, skip) :
          LET r == fetch_fda_labels(resp)
          IN  /\ pc' = IF r.tag = "raise" THEN "raised"
                       ELSE IF r.value = <<>> THEN "returned"
                       ELSE "for"
              /\ labels' = IF r.tag = "raise" THEN labels ELSE r.value
    /\ idx' = 1
    /\ fetches' = fetches + 1
    /\ UNCHANGED <<source, collected, seen_apps, skip>>

\* one iteration of `for lab in labels`
ForLabel ==
    /\ pc = "for"
    /\ LET r == extract_complete_record(labels[idx].label, labels[idx].rx).result
           fresh == IsFresh(r, seen_apps)
       IN  /\ collected' = IF fresh THEN Append(collected, r.value) ELSE collected
           /\ seen_apps' = IF fresh
                            THEN seen_apps \cup {r.value["Application Number"]}
                            ELSE seen_apps
           /\ pc' = IF r.tag = "raise" THEN "raised"
                    ELSE IF fresh /\ Reached(Len(collected')) THEN "sleep"
                    ELSE IF idx = Len(labels) THEN "sleep"
                    ELSE "for"
    /\ idx' = idx + 1
    /\ UNCHANGED <<source, skip, labels, fetches>>

\* skip += batch_size; time.sleep(1)
Sleep ==
    /\ pc = "sleep"
    /\ skip' = skip + batch_size
    /\ pc' = "while"
    /\ UNCHANGED <<source, collected, seen_apps, labels, idx, fetches>>

\* the while condition fails: return collected
Return ==
    /\ pc = "while"
    /\ ~(Len(collected) < Target)
    /\ pc' = "returned"
    /\ UNCHANGED <<source, collected, seen_apps, skip, labels, idx, fetches>>

-----------------------------------------------------------------------------
(* Specification SpecLoop: the batch loop over a finite labeling source *)

MaxFill == 61
MaxSpecial == 2

Digits == <<"0", "1", "2", "3", "4", "5", "6", "7", "8", "9">>

\* an application number for the k-th filler label
AppNo(k) == <<"N", Digits[((k \div 10) % 10) + 1], Digits[(k % 10) + 1]>>

NoResponse == [kind |-> "error"]
CompleteResponse ==
    [kind |-> "json", status_code |-> 200,
     data |-> <<EmptyDict, EmptyDict,
                [active_ingredient |-> << <<"P">>, <<"Q">> >>,
                 inactive_ingredient |-> << <<"R">> >>]>>]
HalfResponse ==
    [kind |-> "json", status_code |-> 200,
     data |-> <<EmptyDict, EmptyDict,
                [active_ingredient |-> << <<"P">> >>,
                 inactive_ingredient |-> <<>>]>>]
ErrorStatusResponse == [kind |-> "json", status_code |-> 500, data |-> <<>>]

\* a label with both ingredient lists
FullLabel(brand, app) ==
    [openfda |-> [brand_name |-> <<brand>>, application_number |-> <<app>>],
     active_ingredient |-> << <<"X">> >>,
     inactive_ingredient |-> << <<"W">>, <<"V">> >>]

\* the k-th filler: a complete label with an application number of its own
Filler(k) == [label |-> FullLabel(<<"F">>, AppNo(k)), rx |-> NoResponse]

\* the labels placed among the fillers
SpecialLabels ==
    {\* complete, with the application number of the first filler
     [label |-> FullLabel(<<"D">>, <<" ">> \o AppNo(1) \o <<" ">>), rx |-> NoResponse],
     \* complete, without application number
     [label |-> [openfda |-> [brand_name |-> << <<"E">> >>],
                 active_ingredient |-> << <<"X">> >>,
                 inactive_ingredient |-> << <<"W">> >>],
      rx |-> NoResponse],
     \* no inactive ingredients, completed by the fallback; no application number
     [label |-> [openfda |-> [generic_name |-> << <<"g">> >>],
                 active_ingredient |-> << <<"X">> >>],
      rx |-> CompleteResponse],
     \* no ingredients, completed by the fallback; application number of filler 1
     [label |-> [openfda |-> [brand_name |-> << <<"H">> >>,
                              application_number |-> <<AppNo(1)>>]],
      rx |-> CompleteResponse],
     \* no active ingredients, fallback answers 500
     [label |-> [openfda |-> [brand_name |-> << <<"I">> >>,
                              application_number |-> << <<"S", "1">> >>],
                 inactive_ingredient |-> << <<"W">> >>],
      rx |-> ErrorStatusResponse],
     \* no inactive ingredients, fallback has no inactive ingredients either
     [label |-> [openfda |-> [brand_name |-> << <<"J">> >>,
                              application_number |-> << <<"S", "2">> >>],
                 active_ingredient |-> << <<"X">> >>],
      rx |-> HalfResponse],
     \* no ingredients, the fallback request fails
     [label |-> [openfda |-> [brand_name |-> << <<"K">> >>,
                              application_number |-> << <<"S", "3">> >>]],
      rx |-> NoResponse]}

RECURSIVE SeqsUpTo(_, _)
SeqsUpTo(S, n) ==
    IF n = 0 THEN {<<>>}
    ELSE LET shorter == SeqsUpTo(S, n - 1)
         IN  shorter \cup {Append(s, x) : s \in shorter, x \in S}

FillCounts == {0, 1, batch_size, Target - 2, Target - 1, Target, MaxFill}

Min(a, b) == IF a < b THEN a ELSE b

\* n fillers with the special labels placed after the first `at` of them
SourceOf(n, at, special) ==
    [k \in 1..at |-> Filler(k)] \o special \o [k \in 1..(n - at) |-> Filler(at + k)]

Sources ==
    {SourceOf(n, Min(at, n), special) :
        n \in FillCounts, at \in {0, batch_size - 1, MaxFill},
        special \in SeqsUpTo(SpecialLabels, MaxSpecial)}

InitC ==
    /\ pc = "while"
    /\ source \in Sources
    /\ collected = <<>>
    /\ seen_apps = {}
    /\ skip = 0
    /\ labels = <<>>
    /\ idx = 0
    /\ fetches = 0

InitLoop == InitC /\ InitNIdle /\ InitEIdle /\ InitRIdle

NextC ==
    \/ FetchBatch /\ UNCHANGED <<varsN, varsE, varsR>>
    \/ ForLabel /\ UNCHANGED <<varsN, varsE, varsR>>
    \/ Sleep /\ UNCHANGED <<varsN, varsE, varsR>>
    \/ Return /\ UNCHANGED <<varsN, varsE, varsR>>

SpecLoop == InitLoop /\ [][NextC]_vars

-----------------------------------------------------------------------------
(* app_with_chroma_and_fda_api.py: the query loop *)

\* "Active Ingredients: "
ActivePrefix ==
    <<"A", "c", "t", "i", "v", "e", " ", "I", "n", "g", "r", "e", "d", "i",
      "e", "n", "t", "s", ":", " ">>

\* "\nInactive Ingredients: "
InactivePrefix ==
    <<"\n", "I", "n", "a", "c", "t", "i", "v", "e", " ", "I", "n", "g", "r",
      "e", "d", "i", "e", "n", "t", "s", ":", " ">>

\* "N/A"
NotAvailable == <<"N", "/", "A">>

\* "Drug not found in local DB or FDA API."
NotFoundMessage ==
    <<"D", "r", "u", "g", " ", "n", "o", "t", " ", "f", "o", "u", "n", "d",
      " ", "i", "n", " ", "l", "o", "c", "a", "l", " ", "D", "B", " ", "o",
      "r", " ", "F", "D", "A", " ", "A", "P", "I", ".">>

\* "exit"
ExitWord == <<"e", "x", "i", "t">>

\* IngredientText without the "N/A" branch
IngredientText_NoDefault(result, key) == Join(Get(result, key, <<>>), CommaSpace)

\* ", ".join(result.get(key, [])) if key in result else "N/A"
IngredientText(result, key) ==
    IF key \in DOMAIN result THEN Join(Get(result, key, <<>>), CommaSpace)
    ELSE NotAvailable

\* the try block of fetch_drug_from_fda; resp is what requests.get meets
TryFetchDrug(resp) ==
    IF resp.kind = "error" THEN Raised
    ELSE IF resp.status_code >= 400 THEN Raised
    ELSE IF resp.kind = "notjson" THEN Raised
    ELSE IF "results" \in DOMAIN resp.body /\ Len(resp.body["results"]) > 0
         THEN Value(ActivePrefix
                    \o IngredientText(resp.body["results"][1], "active_ingredient")
                    \o InactivePrefix
                    \o IngredientText(resp.body["results"][1], "inactive_ingredient"))
         ELSE None

\* fetch_drug_from_fda without the except clause
fetch_drug_from_fda_NoExcept(resp) == TryFetchDrug(resp)

\* fetch_drug_from_fda(drug_name): `except Exception` returns None
fetch_drug_from_fda(resp) ==
    IF TryFetchDrug(resp).tag = "raise" THEN None ELSE TryFetchDrug(resp)

\* LocalNames without the strip
LocalNames_NoStrip(names) == {Lower(name) : name \in names}

\* set([name.lower().strip() for name in df["Brand Name"]])
LocalNames(names) == {Strip(Lower(name)) : name \in names}

\* query.lower().strip()
QueryLower(q) == Strip(Lower(q))

\* input(...).strip() is "exit" in any case: break
Exit(line) ==
    /\ pcR = "prompt"
    /\ Lower(Strip(line)) = ExitWord
    /\ input' = line
    /\ query' = Strip(line)
    /\ pcR' = "exited"
    /\ UNCHANGED <<brand_names, local_drug_names, fdaResp, fda_result, printed,
                   chainCalls, fdaCalls>>

\* the query is a local name: chain.invoke, which prints the source
\* documents or raises
AskLocal(line, chainRaises) ==
    /\ pcR = "prompt"
    /\ Lower(Strip(line)) # ExitWord
    /\ QueryLower(Strip(line)) \in local_drug_names
    /\ input' = line
    /\ query' = Strip(line)
    /\ chainCalls' = chainCalls + 1
    /\ pcR' = IF chainRaises THEN "chain_error" ELSE "prompt"
    /\ printed' = <<>>
    /\ UNCHANGED <<brand_names, local_drug_names, fdaResp, fda_result, fdaCalls>>

\* the query is not a local name: fetch_drug_from_fda and print
AskRemote(line, resp) ==
    /\ pcR = "prompt"
    /\ Lower(Strip(line)) # ExitWord
    /\ QueryLower(Strip(line)) \notin local_drug_names
    /\ input' = line
    /\ query' = Strip(line)
    /\ fdaCalls' = fdaCalls + 1
    /\ fdaResp' = resp
    /\ LET r == fetch_drug_from_fda(resp)
       IN  /\ fda_result' = r
           /\ pcR' = IF r.tag = "raise" THEN "raised" ELSE "prompt"
           /\ printed' = IF r.tag = "raise" THEN <<>>
                         ELSE IF r.tag = "value" /\ r.value # <<>> THEN r.value
                         ELSE NotFoundMessage
    /\ UNCHANGED <<brand_names, local_drug_names, chainCalls>>

-----------------------------------------------------------------------------
(* Specification SpecResolver: the query loop over bounded input lines *)

MaxQueries == 2
MaxQueryLen == 2

QueryAlphabet == {"B", " "}

\* the "Brand Name" column of the CSV
RawBrands ==
    {<<"A", "s", "p", "i", "r", "i", "n", " ">>,
     <<" ", "b">>}

QueryLines ==
    StringsUpTo(QueryAlphabet, MaxQueryLen)
    \cup {<<"b">>,
          ExitWord,
          <<" ", "E", "x", "i", "T", "\t">>,
          <<"e", "x", "i">>,
          <<"a", "s", "p", "i", "r", "i", "n">>,
          <<" ", "A", "S", "P", "i", "r", "i", "n", "\n">>,
          <<"A", "s", "p", " ", "i", "r", "i", "n">>,
          <<"i", "b", "u", "p", "r", "o", "f", "e", "n">>}

\* elements of the labeling API's results list
OnlyActive == [active_ingredient |-> << <<"X">> >>]
EmptyActive == [active_ingredient |-> <<>>,
                inactive_ingredient |-> << <<"W">>, <<"V", "v">> >>]
BothIngredients == [active_ingredient |-> << <<"X">>, <<"Y">> >>,
                    inactive_ingredient |-> << <<"W">> >>]
ResultInputs == {EmptyDict, OnlyActive, EmptyActive, BothIngredients}

\* what requests.get can meet at the labeling API's point lookup
PointResponses ==
    {[kind |-> "error"],
     [kind |-> "json", status_code |-> 500,
      body |-> [results |-> <<BothIngredients>>]],
     [kind |-> "notjson", status_code |-> 200],
     [kind |-> "json", status_code |-> 200, body |-> EmptyDict],
     [kind |-> "json", status_code |-> 200, body |-> [results |-> <<>>]],
     [kind |-> "json", status_code |-> 200,
      body |-> [results |-> <<OnlyActive, BothIngredients>>]]}
    \cup {[kind |-> "json", status_code |-> 200, body |-> [results |-> <<r>>]] :
            r \in ResultInputs}

InitR ==
    /\ pcR = "prompt"
    /\ brand_names \in SUBSET RawBrands
    /\ local_drug_names = LocalNames(brand_names)
    /\ input = <<>>
    /\ query = <<>>
    /\ fdaResp = [kind |-> "error"]
    /\ fda_result = None
    /\ printed = <<>>
    /\ chainCalls = 0
    /\ fdaCalls = 0

InitResolver == InitR /\ InitNIdle /\ InitEIdle /\ InitCIdle

NextR ==
    \/ \E line \in QueryLines : Exit(line) /\ UNCHANGED <<varsN, varsE, varsC>>
    \/ \E line \in QueryLines, chainRaises \in BOOLEAN :
        /\ chainCalls + fdaCalls < MaxQueries
        /\ AskLocal(line, chainRaises)
        /\ UNCHANGED <<varsN, varsE, varsC>>
    \/ \E line \in QueryLines, resp \in PointResponses :
        /\ chainCalls + fdaCalls < MaxQueries
        /\ AskRemote(line, resp)
        /\ UNCHANGED <<varsN, varsE, varsC>>

SpecResolver == InitResolver /\ [][NextR]_vars

-----------------------------------------------------------------------------
(* C9 *)

\* the entries of normalized text: the pieces between ", " separators
OutEntries(y) ==
    LET P == Split(y, ",")
    IN  IF y = <<>> THEN <<>>
        ELSE [k \in DOMAIN P |-> IF k = 1 THEN P[1] ELSE Tail(P[k])]

\* the trimmed text between the commas of x
InPieces(x) == LET P == Split(x, ",") IN [k \in DOMAIN P |-> Strip(P[k])]

FirstPos(x, e) == CHOOSE k \in DOMAIN InPieces(x) :
    /\ InPieces(x)[k] = e
    /\ \A j \in 1..(k - 1) : InPieces(x)[j] # e

\* y is x split on commas, trimmed, without empty entries, without
\* duplicates, in the order of first occurrence, joined with ", "
IsNormalized(x, y) ==
    LET P == Split(y, ",")
        E == OutEntries(y)
    IN  /\ \A k \in DOMAIN P : k > 1 => (P[k] # <<>> /\ Head(P[k]) = " ")
        /\ \A k \in DOMAIN E : E[k] # <<>> /\ Strip(E[k]) = E[k]
        /\ \A j, k \in DOMAIN E : j # k => E[j] # E[k]
        /\ {E[k] : k \in DOMAIN E}
              = {InPieces(x)[k] : k \in DOMAIN InPieces(x)} \ {<<>>}
        /\ \A j, k \in DOMAIN E : j < k => FirstPos(x, E[j]) < FirstPos(x, E[k])

\* C9: normalize_ingredients rewrites each ingredient field, independently,
\* to its comma-separated entries trimmed, without empty entries and without
\* duplicates (first occurrence kept in place), joined with ", "; it leaves
\* the other fields alone, maps "A, B, A, C" to "A, B, C", and applying it a
\* second time changes nothing.
C9_NormalizeIdempotent ==
    /\ pcN = "once" =>
          /\ Len(records) = Len(records1)
          /\ \A k \in DOMAIN records :
                /\ IsNormalized(records1[k]["Active Ingredients"],
                                records[k]["Active Ingredients"])
                /\ IsNormalized(records1[k]["Inactive Ingredients"],
                                records[k]["Inactive Ingredients"])
                /\ records1[k]["Active Ingredients"] = ExampleIn
                      => records[k]["Active Ingredients"] = ExampleOut
                /\ \A key \in DOMAIN records1[k] \ {"Active Ingredients",
                                                     "Inactive Ingredients"} :
                      records[k][key] = records1[k][key]
    /\ pcN = "twice" => records = records1

\* a list of two records normalized twice, the first with "A, B, A, C"
C9_Witness ==
    /\ pcN = "twice"
    /\ Len(records) = 2
    /\ records[1]["Active Ingredients"] = ExampleOut
    /\ records[2]["Inactive Ingredients"] = <<"C">>


-----------------------------------------------------------------------------
(* C5, C6 *)

\* the first entry of a label field, trimmed; "" for an absent field
FirstOf(d, key) == IF key \in DOMAIN d THEN Strip(d[key][1]) ELSE <<>>

LabelOpenfda == IF "openfda" \in DOMAIN label THEN label["openfda"] ELSE EmptyDict
LabelActive ==
    IF "active_ingredient" \in DOMAIN label THEN label["active_ingredient"] ELSE <<>>
LabelInactive ==
    IF "inactive_ingredient" \in DOMAIN label THEN label["inactive_ingredient"] ELSE <<>>

\* the secondary API answers 200 with an array whose third element has
\* both lists non-empty
FallbackCompleteOf(resp) ==
    /\ resp.kind = "json"
    /\ resp.status_code = 200
    /\ Len(resp.data) >= 3
    /\ "active_ingredient" \in DOMAIN resp.data[3]
    /\ "inactive_ingredient" \in DOMAIN resp.data[3]
    /\ resp.data[3]["active_ingredient"] # <<>>
    /\ resp.data[3]["inactive_ingredient"] # <<>>

FallbackComplete == FallbackCompleteOf(rxResp)

\* v where the label has a value, the placeholder where it has none
OrPlaceholder(v, placeholder) == IF v = <<>> THEN placeholder ELSE v

\* C5: for a label missing the active or the inactive list, when the
\* secondary API returns non-empty active and inactive lists, the record's
\* ingredient fields are the fallback's lists joined with ", " (no label
\* ingredient appears in them) and each identity field is the label's value
\* (first entry, trimmed) where there is one, else "Unknown brand",
\* "Unknown generic" or "Unknown".
C5_FallbackRecord ==
    (/\ pcE = "done"
     /\ (LabelActive = <<>> \/ LabelInactive = <<>>)
     /\ FallbackComplete)
    => /\ rec.tag = "value"
       /\ rxCalls = 1
       /\ rec.value["Active Ingredients"]
            = Join(rxResp.data[3]["active_ingredient"], CommaSpace)
       /\ rec.value["Inactive Ingredients"]
            = Join(rxResp.data[3]["inactive_ingredient"], CommaSpace)
       /\ \A k \in DOMAIN LabelActive :
            \A j \in DOMAIN OutEntries(rec.value["Active Ingredients"]) :
                OutEntries(rec.value["Active Ingredients"])[j] # LabelActive[k]
       /\ \A k \in DOMAIN LabelInactive :
            \A j \in DOMAIN OutEntries(rec.value["Inactive Ingredients"]) :
                OutEntries(rec.value["Inactive Ingredients"])[j] # LabelInactive[k]
       /\ rec.value["Brand Name"]
            = OrPlaceholder(FirstOf(LabelOpenfda, "brand_name"),
                <<"U", "n", "k", "n", "o", "w", "n", " ", "b", "r", "a", "n", "d">>)
       /\ rec.value["Generic Name"]
            = OrPlaceholder(FirstOf(LabelOpenfda, "generic_name"),
                <<"U", "n", "k", "n", "o", "w", "n", " ",
                  "g", "e", "n", "e", "r", "i", "c">>)
       /\ rec.value["Manufacturer"]
            = OrPlaceholder(FirstOf(LabelOpenfda, "manufacturer_name"),
                <<"U", "n", "k", "n", "o", "w", "n">>)
       /\ rec.value["Application Number"]
            = OrPlaceholder(FirstOf(LabelOpenfda, "application_number"),
                <<"U", "n", "k", "n", "o", "w", "n">>)
       /\ rec.value["Dosage Form"]
            = OrPlaceholder(FirstOf(label, "dosage_form"),
                <<"U", "n", "k", "n", "o", "w", "n">>)

\* a label with active but no inactive ingredients, a brand but no generic
\* name, completed from the fallback
C5_Witness ==
    /\ pcE = "done"
    /\ LabelActive # <<>>
    /\ LabelInactive = <<>>
    /\ FallbackComplete
    /\ FirstOf(LabelOpenfda, "brand_name") # <<>>
    /\ FirstOf(LabelOpenfda, "generic_name") = <<>>
    /\ rec.tag = "value"

\* C6: for a label whose active and inactive lists are both non-empty the
\* record is built from the label's own ingredients and identity fields
\* (first entry, trimmed, no placeholder) and fetch_rxterms_ingredients is
\* not called.
C6_PrimaryNoFallback ==
    (/\ pcE = "done"
     /\ LabelActive # <<>>
     /\ LabelInactive # <<>>)
    => /\ rxCalls = 0
       /\ rec.tag = "value"
       /\ rec.value["Active Ingredients"] = Join(LabelActive, CommaSpace)
       /\ rec.value["Inactive Ingredients"] = Join(LabelInactive, CommaSpace)
       /\ rec.value["Brand Name"] = FirstOf(LabelOpenfda, "brand_name")
       /\ rec.value["Generic Name"] = FirstOf(LabelOpenfda, "generic_name")
       /\ rec.value["Manufacturer"] = FirstOf(LabelOpenfda, "manufacturer_name")
       /\ rec.value["Application Number"]
            = FirstOf(LabelOpenfda, "application_number")
       /\ rec.value["Dosage Form"] = FirstOf(label, "dosage_form")

\* a complete label processed while the secondary API would have answered
\* with complete lists, or would have failed
C6_Witness ==
    /\ pcE = "done"
    /\ LabelActive # <<>>
    /\ LabelInactive # <<>>
    /\ FirstOf(LabelOpenfda, "brand_name") = <<>>
    /\ rxResp.kind = "error"
    /\ rec.tag = "value"
    /\ rxCalls = 0

-----------------------------------------------------------------------------
(* C3, C4, C7, C8 *)

\* the label has both ingredient lists
HasBothLists(lab) ==
    /\ "active_ingredient" \in DOMAIN lab
    /\ "inactive_ingredient" \in DOMAIN lab
    /\ lab["active_ingredient"] # <<>>
    /\ lab["inactive_ingredient"] # <<>>

\* the source entry can be completed, from the label or from the fallback
Completable(e) == HasBothLists(e.label) \/ FallbackCompleteOf(e.rx)

\* the secondary API answers, without both lists
FallbackIncomplete(resp) ==
    /\ resp.kind = "json"
    /\ ~FallbackCompleteOf(resp)

\* the application number the record of a completable entry carries
RecordApp(e) ==
    LET app == FirstOf(IF "openfda" \in DOMAIN e.label
                       THEN e.label["openfda"] ELSE EmptyDict,
                       "application_number")
    IN  IF HasBothLists(e.label) THEN app
        ELSE OrPlaceholder(app, <<"U", "n", "k", "n", "o", "w", "n">>)

CompletableAt(src) == {k \in DOMAIN src : Completable(src[k])}

DistinctApps(src) == {RecordApp(src[k]) : k \in CompletableAt(src)}

\* C3: the collected list never holds two records with the same
\* application number, and a completed record whose application number is
\* that of a collected record is dropped.
C3_UniqueApplicationNumber ==
    /\ [](\A j, k \in DOMAIN collected :
            j # k => collected[j]["Application Number"]
                        # collected[k]["Application Number"])
    /\ [][(/\ pc = "for"
           /\ idx' = idx + 1
           /\ Completable(labels[idx])
           /\ \E k \in DOMAIN collected :
                collected[k]["Application Number"] = RecordApp(labels[idx]))
          => collected' = collected]_vars

\* the loop returned after fetching two completable labels with one
\* application number in different batches, and one record carries it
C3_Witness ==
    /\ pc = "returned"
    /\ Len(collected) < Target
    /\ \E j, k \in CompletableAt(source) :
        /\ j <= batch_size
        /\ k > batch_size
        /\ RecordApp(source[j]) = RecordApp(source[k])
        /\ Cardinality({n \in DOMAIN collected :
              collected[n]["Application Number"] = RecordApp(source[j])}) = 1

C7_OnlyCompleteRecords ==
    /\ [](\A k \in DOMAIN collected :
            /\ collected[k]["Active Ingredients"] # <<>>
            /\ collected[k]["Inactive Ingredients"] # <<>>)
    /\ [][(/\ pc = "for"
           /\ idx' = idx + 1
           /\ ~HasBothLists(labels[idx].label)
           /\ ~FallbackCompleteOf(labels[idx].rx))
          => collected' = collected]_vars
    /\ [](pc = "returned" => Len(collected) <= Cardinality(CompletableAt(source)))

\* the loop returned records from a source that also held a label whose
\* fallback had no inactive ingredients and one whose fallback answered 500
C7_Witness ==
    /\ pc = "returned"
    /\ Len(collected) < Target
    /\ Len(collected) >= 1
    /\ \E k \in DOMAIN source :
        ~HasBothLists(source[k].label) /\ source[k].rx = HalfResponse
    /\ \E k \in DOMAIN source :
        ~HasBothLists(source[k].label) /\ source[k].rx = ErrorStatusResponse

\* C8: no failure of the labeling API or of the secondary ingredient API
\* leaves the component that made the call: neither collect_50_complete_drugs
\* nor the Resolver's query loop ends by an exception of a remote call.
C8_NoFailureEscapes == pc # "raised" /\ pcR # "raised"

-----------------------------------------------------------------------------
(* C1, C2, C10 *)

\* s without its leading and trailing whitespace
Core(s) ==
    LET inked == {k \in DOMAIN s : s[k] \notin {" ", "\t", "\n"}}
    IN  IF inked = {} THEN <<>>
        ELSE SubSeq(s, CHOOSE k \in inked : \A j \in inked : k <= j,
                       CHOOSE k \in inked : \A j \in inked : k >= j)

\* a and b are the same text up to letter case and surrounding whitespace
SameName(a, b) ==
    /\ Len(Core(a)) = Len(Core(b))
    /\ \A k \in DOMAIN Core(a) : LowerChar(Core(a)[k]) = LowerChar(Core(b)[k])

LookupFails(resp) ==
    \/ resp.kind = "error"
    \/ resp.kind = "notjson"
    \/ resp.status_code >= 400
    \/ "results" \notin DOMAIN resp.body
    \/ resp.body["results"] = <<>>

\* C2: when the labeling API call of a REMOTE query fails,
\* fetch_drug_from_fda returns None, the loop prints "Drug not found in
\* local DB or FDA API." and is back at the prompt; no exception leaves
\* fetch_drug_from_fda.
C2_RemoteFailure ==
    /\ [](pcR # "raised")
    /\ [][(fdaCalls' = fdaCalls + 1 /\ LookupFails(fdaResp'))
          => /\ fda_result' = [tag |-> "None"]
             /\ printed' =
                    <<"D", "r", "u", "g", " ", "n", "o", "t", " ", "f", "o",
                      "u", "n", "d", " ", "i", "n", " ", "l", "o", "c", "a",
                      "l", " ", "D", "B", " ", "o", "r", " ", "F", "D", "A",
                      " ", "A", "P", "I", ".">>
             /\ pcR' = "prompt"]_vars

\* a second REMOTE query failed on a body that is not JSON and the loop is
\* at the prompt again
C2_Witness ==
    /\ fdaCalls = 2
    /\ fdaResp.kind = "notjson"
    /\ fda_result.tag = "None"
    /\ printed = NotFoundMessage
    /\ pcR = "prompt"

\* the text for one ingredient list of a result
ListOrNA(result, key) ==
    IF key \in DOMAIN result THEN Join(result[key], <<",", " ">>)
    ELSE <<"N", "/", "A">>

\* C10: when the labeling API answers a REMOTE query with a non-empty
\* results list, fetch_drug_from_fda returns "Active Ingredients: <a>\n
\* Inactive Ingredients: <i>" for the first result, each list joined with
\* ", " or "N/A" for an absent field; active_ingredient ["X"] without
\* inactive_ingredient gives "Active Ingredients: X\nInactive Ingredients: N/A".
C10_RemoteFormat ==
    (fdaCalls >= 1 /\ ~LookupFails(fdaResp))
    => /\ fda_result.tag = "value"
       /\ fda_result.value =
            <<"A", "c", "t", "i", "v", "e", " ", "I", "n", "g", "r", "e",
              "d", "i", "e", "n", "t", "s", ":", " ">>
            \o ListOrNA(fdaResp.body["results"][1], "active_ingredient")
            \o
            <<"\n", "I", "n", "a", "c", "t", "i", "v", "e", " ", "I", "n",
              "g", "r", "e", "d", "i", "e", "n", "t", "s", ":", " ">>
            \o ListOrNA(fdaResp.body["results"][1], "inactive_ingredient")
       /\ fdaResp.body["results"][1] = [active_ingredient |-> << <<"X">> >>]
            => fda_result.value =
                <<"A", "c", "t", "i", "v", "e", " ", "I", "n", "g", "r",
                  "e", "d", "i", "e", "n", "t", "s", ":", " ", "X", "\n",
                  "I", "n", "a", "c", "t", "i", "v", "e", " ", "I", "n",
                  "g", "r", "e", "d", "i", "e", "n", "t", "s", ":", " ",
                  "N", "/", "A">>

\* a two-element results list whose first element has only active_ingredient
C10_Witness ==
    /\ fdaCalls >= 1
    /\ ~LookupFails(fdaResp)
    /\ Len(fdaResp.body["results"]) = 2
    /\ DOMAIN fdaResp.body["results"][1] = {"active_ingredient"}
    /\ printed = fda_result.value

=============================================================================
